---- MODULE Spec2Model ----
(***************************************************************************)
(* One invocation of the update-login cloud function, for each of the      *)
(* eight variants of the function kept in the repository:                  *)
(*   idx_userFunction  src/index.js:31-227   (SDK, context.res)            *)
(*   idx_run           src/index.js:249-381  (REST, stdout)                *)
(*   idx_main          src/index.js:416-533  (SDK, stdout)                 *)
(*   idx_exports       src/index.js:567-701  (SDK, response.json)          *)
(*   p0_run            src/unnamed/part_000  (REST, stdout)                *)
(*   p1_main           src/unnamed/part_001  (SDK, stdout)                 *)
(*   p2_userFunction   src/unnamed/part_002  (SDK, stdout)                 *)
(*   p3_main           src/unnamed/part_003  (SDK, stdout)                 *)
(* JavaScript strings are sequences of one-character strings; a JSON value *)
(* of a request field is a record [t, s] (its type and its characters).    *)
(* A raw payload text is one of a finite set of texts (Texts) on which     *)
(* JSON.parse, URLSearchParams and includes() are defined case by case.    *)
(***************************************************************************)
EXTENDS Integers, Sequences, FiniteSets, TLC

VARIABLES variant, env, input, stdinRead, pc, body, newIdentifier,
          updatedAccount, updatedProfile, calls, emitted, thrown

vars == <<variant, env, input, stdinRead, pc, body, newIdentifier,
          updatedAccount, updatedProfile, calls, emitted, thrown>>

\* Longest phone / email input enumerated character by character.
MaxLen == 2

\* Most 'data' events in which the text on standard input arrives.
MaxChunks == 2

Variants == {"idx_userFunction", "idx_run", "idx_main", "idx_exports",
             "p0_run", "p1_main", "p2_userFunction", "p3_main"}

\* Variants that call the REST endpoints with fetch (the others use the SDK).
RestVariants == {"idx_run", "p0_run"}

(***************************************************************************)
(* Strings and field values                                                *)
(***************************************************************************)
Alphabet == {"9", "8", " ", "a"}

IsDigit(c) == c \in {"9", "8"}

IsSpace(c) == c = " "

StringsUpTo(n) == UNION {[1..k -> Alphabet] : k \in 0..n}

Undefined == [t |-> "undefined", s |-> <<>>]

Null == [t |-> "null", s |-> <<>>]

Str(s) == [t |-> "string", s |-> s]

Num(s) == [t |-> "number", s |-> s]

\* JavaScript truthiness of a field value (the numbers of the model are non-zero).
Truthy(v) == \/ v.t = "string" /\ v.s # <<>>
             \/ v.t = "number"

\* String(x): the characters of a string or of a number.
String(v) == v.s

RECURSIVE trimStart(_)
trimStart(s) == IF s # <<>> /\ IsSpace(Head(s)) THEN trimStart(Tail(s)) ELSE s

RECURSIVE trimEnd(_)
trimEnd(s) == IF s # <<>> /\ IsSpace(s[Len(s)])
              THEN trimEnd(SubSeq(s, 1, Len(s) - 1)) ELSE s

\* String.prototype.trim
trim(s) == trimEnd(trimStart(s))

\* The mutant keeps every character (no stripping).
digits_keepAll(s) == s

\* String(newPhone).replace(/\D/g, "")
digits(s) == SelectSeq(s, IsDigit)

PhoneLocal == <<"@", "p", "h", "o", "n", "e", ".", "l", "o", "c", "a", "l">>

(***************************************************************************)
(* The request object and the configuration                                *)
(***************************************************************************)
\* The password the account really has; any other currentPassword is wrong.
AccountPassword == Str(<<"r">>)

WrongPassword == Str(<<"w">>)

EmptyRequest ==
  [profileId |-> Undefined, accountId |-> Undefined, currentPassword |-> Undefined,
   verifyCurrentPassword |-> FALSE, newPhone |-> Undefined, newEmail |-> Undefined,
   name |-> Undefined, newPassword |-> Undefined]

FieldNames == {"profileId", "accountId", "currentPassword", "newPhone", "newEmail",
               "name", "newPassword"}

\* Object.keys(request).length
RequestKeys(r) == Cardinality({f \in FieldNames : r[f].t # "undefined"})
                  + (IF r.verifyCurrentPassword THEN 1 ELSE 0)

ProfileIdValue == Str(<<"p", "1">>)

AccountIdValue == Str(<<"a", "1">>)

IdPairs == {<<ProfileIdValue, AccountIdValue>>, <<Undefined, AccountIdValue>>,
            <<ProfileIdValue, Undefined>>, <<Str(<<>>), AccountIdValue>>,
            <<ProfileIdValue, Str(<<>>)>>, <<Undefined, Undefined>>}

PasswordChecks == {<<FALSE, Undefined>>, <<TRUE, AccountPassword>>, <<TRUE, WrongPassword>>}

PhoneValues == {Undefined, Str(<<" ">>), Str(<<"a">>), Str(<<"9", " ", "8">>), Num(<<"9">>)}

EmailValues == {Undefined, Str(<<" ">>), Str(<<" ", "a">>), Num(<<"8">>)}

NameValues == {Undefined, Str(<<" ">>), Str(<<"a", " ">>), Num(<<"9">>)}

PasswordValues == {Undefined, Str(<<"a">>)}

MakeRequest(ids, chk, phone, email, nm, pw) ==
  [profileId |-> ids[1], accountId |-> ids[2], currentPassword |-> chk[2],
   verifyCurrentPassword |-> chk[1], newPhone |-> phone, newEmail |-> email,
   name |-> nm, newPassword |-> pw]

\* Requests with both ids and every combination of the mutable fields.
FieldRequests ==
  {MakeRequest(<<ProfileIdValue, AccountIdValue>>, chk, ph, em, nm, pw) :
     chk \in PasswordChecks, ph \in PhoneValues, em \in EmailValues,
     nm \in NameValues, pw \in PasswordValues}

\* Requests with an id missing or empty, with and without mutable fields.
IdRequests ==
  {MakeRequest(ids, <<FALSE, Undefined>>, ph, Undefined, nm, Undefined) :
     ids \in IdPairs, ph \in {Undefined, Str(<<"9">>)}, nm \in {Undefined, Str(<<"a">>)}}

EmailAlphabet == {" ", "a"}

EmailStrings(n) == UNION {[1..k -> EmailAlphabet] : k \in 0..n}

\* Requests whose phone and email run over every string up to MaxLen.
IdentifierRequests ==
  {MakeRequest(<<ProfileIdValue, AccountIdValue>>, <<FALSE, Undefined>>, ph, em,
               Undefined, Undefined) :
     ph \in {Undefined} \cup {Str(s) : s \in StringsUpTo(MaxLen)},
     em \in {Undefined} \cup {Str(s) : s \in EmailStrings(MaxLen)}}

EnvNames == {"APPWRITE_ENDPOINT", "APPWRITE_PROJECT_ID", "APPWRITE_PROJECT",
             "APPWRITE_API_KEY", "APPWRITE_DATABASE_ID", "APPWRITE_USER_COLLECTION_ID"}

\* The environments: complete, one name unset, or both project names unset.
Envs == {EnvNames} \cup {EnvNames \ {n} : n \in EnvNames}
        \cup {EnvNames \ {"APPWRITE_PROJECT_ID", "APPWRITE_PROJECT"}}

\* The mutant forgets the collection id.
ConfigMissing_noCollection(e) ==
  \/ "APPWRITE_ENDPOINT" \notin e
  \/ ("APPWRITE_PROJECT_ID" \notin e /\ "APPWRITE_PROJECT" \notin e)
  \/ "APPWRITE_API_KEY" \notin e
  \/ "APPWRITE_DATABASE_ID" \notin e

\* !endpoint || !projectId || !apiKey || !databaseId || !userCollectionId
ConfigMissing(e) ==
  \/ "APPWRITE_ENDPOINT" \notin e
  \/ ("APPWRITE_PROJECT_ID" \notin e /\ "APPWRITE_PROJECT" \notin e)
  \/ "APPWRITE_API_KEY" \notin e
  \/ "APPWRITE_DATABASE_ID" \notin e
  \/ "APPWRITE_USER_COLLECTION_ID" \notin e

(***************************************************************************)
(* Payload texts and JavaScript values                                     *)
(***************************************************************************)
\* "{req}" is the JSON text of the request object, "\"{req}\"" the JSON text of
\* a string holding that text, "body=%7Breq%7D" its urlencoded form wrapper;
\* the two other forms carry a payload field before the body field, and a data
\* field whose value is not JSON.
Texts == {"", "{req}", "{}", "null", "\"{req}\"", "body=%7Breq%7D",
          "payload=%7B%7D&body=%7Breq%7D", "data=%7Bbad", "garbage"}

\* What has arrived of a text when only some of its chunks have: a proper
\* prefix, which nothing parses.
Partial == "{re"

JsUndefined == [t |-> "undefined", x |-> ""]

JsNull == [t |-> "null", x |-> ""]

JsObject(o) == [t |-> "object", x |-> o]

JsString(text) == [t |-> "string", x |-> text]

Threw == [ok |-> FALSE, v |-> JsUndefined]

Returned(v) == [ok |-> TRUE, v |-> v]

\* JavaScript falsiness of a value (!v).
Falsy(v) == v.t \in {"undefined", "null"} \/ (v.t = "string" /\ v.x = "")

\* JSON.parse(text)
JSONparse(text) ==
  CASE text = "{req}" -> Returned(JsObject("req"))
    [] text = "{}" -> Returned(JsObject("empty"))
    [] text = "null" -> Returned(JsNull)
    [] text = "\"{req}\"" -> Returned(JsString("{req}"))
    [] OTHER -> Threw

\* JSON.parse(v) for a value: a non-string is converted to a string first.
JSONparseValue(v) ==
  CASE v.t = "string" -> JSONparse(v.x)
    [] v.t = "null" -> Returned(JsNull)
    [] OTHER -> Threw

\* JSON.parse(JSON.parse(raw))
JSONparseTwice(text) ==
  IF JSONparse(text).ok THEN JSONparseValue(JSONparse(text).v) ELSE Threw

\* raw.includes("=") && raw.includes("%7B")
looksUrlencoded(text) ==
  text \in {"body=%7Breq%7D", "payload=%7B%7D&body=%7Breq%7D", "data=%7Bbad"}

\* params.get("body") || params.get("payload") || params.get("data"):
\* URLSearchParams has already percent-decoded the value.
maybe(text) ==
  CASE text = "body=%7Breq%7D" -> "{req}"
    [] text = "payload=%7B%7D&body=%7Breq%7D" -> "{req}"
    [] text = "data=%7Bbad" -> "{bad"
    [] OTHER -> ""

\* JSON.parse(decodeURIComponent(maybe)), else JSON.parse(maybe)
parseMaybe(text) == JSONparse(maybe(text))

\* try { JSON.parse(raw) } catch { try { JSON.parse(JSON.parse(raw)) } catch { fallback } }
parseOrTwice(text, fallback) ==
  IF JSONparse(text).ok THEN JSONparse(text).v
  ELSE IF JSONparseTwice(text).ok THEN JSONparseTwice(text).v
  ELSE fallback

\* Object.keys(v).length for an object value; r is the request object.
ObjectKeys(v, r) == IF v.t = "object" /\ v.x = "req" THEN RequestKeys(r) ELSE 0

(***************************************************************************)
(* Payload resolution                                                      *)
(* An input is what the runtime hands to the invocation: payload (the      *)
(* structured payload argument), reqBody (the request body), rawEnv (the   *)
(* payload environment variable), stdin (the text on standard input) and   *)
(* req (the request object the caller built, which the texts and objects   *)
(* above carry). The resolvers are applied to the input as read: its stdin *)
(* field then holds what the promise around process.stdin resolved with.   *)
(***************************************************************************)
\* The mutant's timers all resolve with the data received so far.
TimerKeepsData_all ==
  {"idx_userFunction", "idx_run", "idx_main", "p0_run", "p1_main",
   "p2_userFunction", "p3_main"}

\* Readers whose timer resolves with the data received so far.
TimerKeepsData == {"idx_userFunction", "idx_run", "p1_main"}

\* let raw = process.env.APPWRITE_FUNCTION_DATA || ... ; if (!raw) raw = await stdin
rawOf(v, in) == IF in.rawEnv # "" THEN in.rawEnv ELSE in.stdin

\* part_000 readPayload, part_002 readPayloadFromEnvOrStdin, index.js main
readEnvOrStdin(v, in) ==
  IF rawOf(v, in) = "" THEN JsObject("empty")
  ELSE parseOrTwice(rawOf(v, in), JsObject("empty"))

\* part_003 safeParseJSON
safeParseJSON(text) == IF text = "" THEN JsNull ELSE parseOrTwice(text, JsNull)

\* part_003 readPayload
readPayload_p3(v, in) ==
  IF rawOf(v, in) = "" \/ Falsy(safeParseJSON(rawOf(v, in))) THEN JsObject("empty")
  ELSE safeParseJSON(rawOf(v, in))

\* part_001 readPayload
readPayload_p1(v, in) ==
  LET raw == rawOf(v, in) IN
  IF raw = "" THEN JsObject("empty")
  ELSE IF looksUrlencoded(raw) /\ maybe(raw) # "" /\ parseMaybe(raw).ok
       THEN parseMaybe(raw).v
       ELSE parseOrTwice(raw, JsObject("empty"))

\* A source that returned nothing: the resolver goes on to the next one.
Skipped == [ok |-> FALSE, v |-> JsUndefined]

\* index.js readPayloadPossible, 1) context.payload and 2) context.request.body
readPayloadPossible_context(in) ==
  IF ~Falsy(in.payload) /\ ObjectKeys(in.payload, in.req) > 0 THEN Returned(in.payload)
  ELSE IF ~Falsy(in.reqBody) /\ in.reqBody.t = "object" THEN Returned(in.reqBody)
  ELSE IF ~Falsy(in.reqBody) /\ JSONparse(in.reqBody.x).ok THEN JSONparse(in.reqBody.x)
  ELSE Skipped

\* index.js readPayloadPossible, 3) the environment variable
readPayloadPossible_env(in) ==
  LET rawEnv == in.rawEnv IN
  IF rawEnv = "" THEN Skipped
  ELSE IF JSONparse(rawEnv).ok THEN JSONparse(rawEnv)
  ELSE IF JSONparseTwice(rawEnv).ok THEN JSONparseTwice(rawEnv)
  ELSE IF looksUrlencoded(rawEnv) /\ maybe(rawEnv) # "" /\ parseMaybe(rawEnv).ok
       THEN parseMaybe(rawEnv)
  ELSE Skipped

\* index.js readPayloadPossible, 4) what was read from stdin, else {}
readPayloadPossible_stdin(stdin) ==
  IF stdin = "" THEN JsObject("empty")
  ELSE IF looksUrlencoded(stdin) /\ maybe(stdin) # "" /\ parseMaybe(stdin).ok
       THEN parseMaybe(stdin).v
  ELSE parseOrTwice(stdin, JsObject("empty"))

\* index.js readPayloadPossible
readPayloadPossible(v, in) ==
  IF readPayloadPossible_context(in).ok THEN readPayloadPossible_context(in).v
  ELSE IF readPayloadPossible_env(in).ok THEN readPayloadPossible_env(in).v
  ELSE readPayloadPossible_stdin(in.stdin)

\* index.js parseBodyFromRequest (bodyJson, bodyText and rawBody are not set)
parseBodyFromRequest(in) ==
  IF ~Falsy(in.payload) THEN in.payload
  ELSE IF ~Falsy(in.reqBody) /\ in.reqBody.t = "object" THEN in.reqBody
  ELSE IF ~Falsy(in.reqBody) /\ JSONparse(in.reqBody.x).ok THEN JSONparse(in.reqBody.x).v
  ELSE JsObject("empty")

\* index.js run: raw ? JSON.parse(raw) : {}  (the parse can throw)
readRun(v, in) ==
  IF rawOf(v, in) = "" THEN Returned(JsObject("empty")) ELSE JSONparse(rawOf(v, in))

\* part_002 userFunction: payloadArg when it has keys, else environment or stdin
readPayload_p2(v, in) ==
  IF ~Falsy(in.payload) /\ ObjectKeys(in.payload, in.req) > 0 THEN in.payload
  ELSE readEnvOrStdin(v, in)

\* Whether the resolver of a variant comes to read standard input.
readsStdin(v, in) ==
  CASE v = "idx_exports" -> FALSE
    [] v = "idx_userFunction" ->
         ~readPayloadPossible_context(in).ok /\ ~readPayloadPossible_env(in).ok
    [] v = "p2_userFunction" ->
         ~(~Falsy(in.payload) /\ ObjectKeys(in.payload, in.req) > 0) /\ in.rawEnv = ""
    [] OTHER -> in.rawEnv = ""

\* The payload each variant resolves: [ok |-> FALSE] when the resolution throws.
resolvePayload(v, in) ==
  CASE v = "idx_userFunction" -> Returned(readPayloadPossible(v, in))
    [] v = "idx_run" -> readRun(v, in)
    [] v = "idx_exports" -> Returned(parseBodyFromRequest(in))
    [] v = "p1_main" -> Returned(readPayload_p1(v, in))
    [] v = "p2_userFunction" -> Returned(readPayload_p2(v, in))
    [] v = "p3_main" -> Returned(readPayload_p3(v, in))
    [] OTHER -> Returned(readEnvOrStdin(v, in))

\* const { profileId, accountId, ... } = body || {}   (index.js run: = body)
destructure(v, b, r) ==
  IF Falsy(b)
  THEN [ok |-> v # "idx_run", f |-> EmptyRequest]
  ELSE [ok |-> TRUE, f |-> IF b.t = "object" /\ b.x = "req" THEN r ELSE EmptyRequest]

(***************************************************************************)
(* Identifier builder and update payloads                                  *)
(***************************************************************************)
\* The mutant tests the email before the phone.
buildIdentifier_emailFirst(v, r) ==
  IF Truthy(r.newEmail) /\ trim(String(r.newEmail)) # <<>>
  THEN [invalid |-> FALSE, id |-> Str(trim(String(r.newEmail)))]
  ELSE IF Truthy(r.newPhone) /\ digits(String(r.newPhone)) # <<>>
       THEN [invalid |-> FALSE, id |-> Str(digits(String(r.newPhone)) \o PhoneLocal)]
       ELSE [invalid |-> FALSE, id |-> Null]

\* let newIdentifier = null; if (newPhone && String(newPhone).trim()) { ... }
\* else if (newEmail && String(newEmail).trim()) { ... }
\* invalid: index.js run answers "newPhone invalid" when the phone has no digit.
buildIdentifier(v, r) ==
  IF Truthy(r.newPhone) /\ trim(String(r.newPhone)) # <<>>
  THEN IF digits(String(r.newPhone)) # <<>>
       THEN [invalid |-> FALSE, id |-> Str(digits(String(r.newPhone)) \o PhoneLocal)]
       ELSE [invalid |-> v = "idx_run", id |-> Null]
  ELSE IF Truthy(r.newEmail) /\ trim(String(r.newEmail)) # <<>>
       THEN [invalid |-> FALSE, id |-> Str(trim(String(r.newEmail)))]
       ELSE [invalid |-> FALSE, id |-> Null]

\* The mutant sets a field that is blank once trimmed.
trimmedOrUndefined_blankKept(x) ==
  IF Truthy(x) THEN Str(trim(String(x))) ELSE Undefined

\* x && String(x).trim() ? String(x).trim() : (not set)
trimmedOrUndefined(x) ==
  IF Truthy(x) /\ trim(String(x)) # <<>> THEN Str(trim(String(x))) ELSE Undefined

NoPayload == [email |-> Undefined, password |-> Undefined, name |-> Undefined,
              phone |-> Undefined]

\* Object.keys(payload).length
Keys(p) == Cardinality({f \in DOMAIN p : p[f].t # "undefined"})

\* The mutant sets the name without testing that one was supplied.
updateArgs_unguardedName(id, r) ==
  [NoPayload EXCEPT !.email = IF Truthy(id) THEN id ELSE Undefined,
                    !.password = trimmedOrUndefined(r.newPassword),
                    !.name = Str(trim(String(r.name)))]

\* updateArgs / accountUpdateBody / emailForSdk, passwordForSdk, nameForSdk
updateArgs(id, r) ==
  [NoPayload EXCEPT !.email = IF Truthy(id) THEN id ELSE Undefined,
                    !.password = trimmedOrUndefined(r.newPassword),
                    !.name = trimmedOrUndefined(r.name)]

\* index.js run calls x.trim() on the value itself: a number has no trim().
trimThrows(v, x) == v = "idx_run" /\ x.t = "number"

\* The mutant stores the login identifier built from the phone.
profilePhone_identifier(r) ==
  IF Truthy(r.newPhone) THEN Str(digits(String(r.newPhone)) \o PhoneLocal) ELSE Undefined

\* if (newPhone) profileData.phone = String(newPhone).replace(/\D/g, "")
profilePhone(r) ==
  IF Truthy(r.newPhone) THEN Str(digits(String(r.newPhone))) ELSE Undefined

\* The mutant sets the email without testing that one was supplied.
profileData_unguardedEmail(v, r) ==
  [threw |-> trimThrows(v, r.newEmail) \/ trimThrows(v, r.name),
   data |-> [NoPayload EXCEPT
               !.phone = profilePhone(r),
               !.email = Str(trim(String(r.newEmail))),
               !.name = trimmedOrUndefined(r.name)]]

\* profileData / profileUpdateBody / profilePatch; threw: building it threw.
profileData(v, r) ==
  [threw |-> trimThrows(v, r.newEmail) \/ trimThrows(v, r.name),
   data |-> [NoPayload EXCEPT
               !.phone = profilePhone(r),
               !.email = trimmedOrUndefined(r.newEmail),
               !.name = trimmedOrUndefined(r.name)]]

(***************************************************************************)
(* Results                                                                 *)
(***************************************************************************)
Result(ok, message, keys, account, profile) ==
  [ok |-> ok, message |-> message, keys |-> keys, account |-> account,
   profile |-> profile]

Failure(message, keys) == Result(FALSE, message, keys, "absent", "absent")

configMessage(v) ==
  CASE v = "idx_run" -> "Missing required environment variables for function"
    [] v \in {"p0_run", "idx_exports"} -> "Missing required environment variables. Make sure ..."
    [] OTHER -> "Missing required environment variables. Ensure ..."

validationMessage(v) ==
  CASE v = "idx_run" -> "profileId and accountId required"
    [] v = "p0_run" -> "profileId and accountId are required"
    [] OTHER -> "profileId and accountId are required in payload"

authFailureMessage(v) ==
  CASE v \in RestVariants -> "Failed to update account"
    [] v = "idx_exports" -> "Failed to update Auth user (users.update). ..."
    [] OTHER -> "Failed to update Auth user"

profileFailureMessage(v) ==
  CASE v = "idx_exports" -> "Failed to update profile document (databases.updateDocument)."
    [] OTHER -> "Failed to update profile document"

unhandledMessage(v) ==
  CASE v = "idx_run" -> "err.message"
    [] v = "p0_run" -> "String(err)"
    [] OTHER -> "Unhandled function error"

configError(v) ==
  Failure(configMessage(v), IF v \in RestVariants THEN {"ok", "message", "detail"}
                            ELSE {"ok", "message"})

validationError(v) ==
  Failure(validationMessage(v),
          CASE v = "idx_run" -> {"ok", "message", "detail"}
            [] v = "p0_run" -> {"ok", "message"}
            [] OTHER -> {"ok", "message", "payload"})

\* { ok: false, message: "Failed to update profile document", detail }
profileError(v, account) ==
  Failure(profileFailureMessage(v), {"ok", "message", "detail"})

\* The mutant's catch block writes to stderr only.
catchResult_silent(v) == <<>>

\* The top-level catch: what it emits.
catchResult(v) ==
  <<Failure(unhandledMessage(v),
            IF v = "p0_run" THEN {"ok", "message"} ELSE {"ok", "message", "detail"})>>

\* The mutant drops the records the calls returned.
success_noRecords(account, profile) ==
  Result(TRUE, "", {"ok", "account", "profile"}, "null", "null")

\* okJson({ account: updatedAccount, profile: updatedProfile })
success(account, profile) ==
  Result(TRUE, "", {"ok", "account", "profile"}, account, profile)

authError(v) == Failure(authFailureMessage(v), {"ok", "message", "detail"})

invalidPhoneError == Failure("newPhone invalid", {"ok", "message", "detail"})

(***************************************************************************)
(* Inputs of one invocation                                                *)
(***************************************************************************)
NoInput(r) ==
  [payload |-> JsUndefined, reqBody |-> JsUndefined, rawEnv |-> "", stdin |-> "",
   req |-> r]

\* The plain delivery of a request: the payload environment variable, or the
\* payload property for the variant that reads nothing else.
PlainInput(v, r) ==
  IF v = "idx_exports" THEN [NoInput(r) EXCEPT !.payload = JsObject("req")]
  ELSE [NoInput(r) EXCEPT !.rawEnv = "{req}"]

Payloads(v) ==
  IF v \in {"idx_userFunction", "idx_exports", "p2_userFunction"}
  THEN {JsUndefined, JsObject("req"), JsObject("empty")} ELSE {JsUndefined}

ReqBodies(v) ==
  IF v \in {"idx_userFunction", "idx_exports"}
  THEN {JsUndefined, JsObject("req"), JsObject("empty"), JsString("{req}"),
        JsString("garbage")}
  ELSE {JsUndefined}

\* The requests sent over every transport: complete, and with accountId missing.
TransportRequests ==
  {[EmptyRequest EXCEPT !.profileId = ProfileIdValue, !.accountId = AccountIdValue,
                        !.name = Str(<<"a">>)],
   [EmptyRequest EXCEPT !.profileId = ProfileIdValue, !.name = Str(<<"a">>)]}

TransportInputs(v) ==
  {[NoInput(r) EXCEPT !.payload = p, !.reqBody = b, !.rawEnv = e] :
     p \in Payloads(v), b \in ReqBodies(v), e \in {"", "{req}"}, r \in TransportRequests}
  \cup {[NoInput(r) EXCEPT !.rawEnv = e, !.stdin = s] :
     e \in Texts, s \in {"", "{req}"}, r \in TransportRequests}
  \cup {[NoInput(r) EXCEPT !.rawEnv = e, !.stdin = s] :
     e \in {"", "garbage"}, s \in Texts, r \in TransportRequests}

Inputs(v) ==
  TransportInputs(v)
  \cup {PlainInput(v, r) : r \in FieldRequests \cup IdRequests \cup IdentifierRequests}

(***************************************************************************)
(* The invocation                                                          *)
(***************************************************************************)
\* The read of standard input before it starts: state is idle (no listener),
\* waiting (the promise is pending) or resolved; data is what has arrived in
\* chunks 'data' events; value is what the promise resolved with.
NotReading ==
  [state |-> "idle", data |-> "", chunks |-> 0, ended |-> FALSE,
   timerFired |-> FALSE, value |-> ""]

Init ==
  /\ variant \in Variants
  /\ env \in Envs
  /\ input \in Inputs(variant)
  /\ stdinRead = NotReading
  /\ pc = "start"
  /\ body = JsUndefined
  /\ newIdentifier = Null
  /\ updatedAccount = "null"
  /\ updatedProfile = "null"
  /\ calls = <<>>
  /\ emitted = <<>>
  /\ thrown = "none"

\* The fields the orchestration works on, once the payload is destructured.
Fields == destructure(variant, body, input.req).f

\* The configuration check at the top of every variant.
CheckConfig ==
  /\ pc = "start"
  /\ IF ConfigMissing(env)
     THEN /\ emitted' = Append(emitted, configError(variant))
          /\ pc' = "done"
     ELSE /\ pc' = "read"
          /\ UNCHANGED emitted
  /\ UNCHANGED <<variant, env, input, stdinRead, body, newIdentifier, updatedAccount,
                 updatedProfile, calls, thrown>>

\* The continuation of the read: the payload is resolved from the input as
\* read, and a throw goes to the top-level catch.
Resolved(in) ==
  LET r == resolvePayload(variant, in) IN
  IF r.ok
  THEN /\ body' = r.v
       /\ pc' = "validate"
       /\ UNCHANGED <<emitted, thrown>>
  ELSE /\ emitted' = emitted \o catchResult(variant)
       /\ thrown' = "payload"
       /\ pc' = "done"
       /\ UNCHANGED body

\* const body = await readPayload(), up to the await on stdin: the listeners
\* are attached and the timer is set, or the payload comes from another source.
StartRead ==
  /\ pc = "read"
  /\ IF readsStdin(variant, input)
     THEN /\ stdinRead' = [stdinRead EXCEPT !.state = "waiting"]
          /\ pc' = "stdin_wait"
          /\ UNCHANGED <<body, emitted, thrown>>
     ELSE /\ Resolved([input EXCEPT !.stdin = ""])
          /\ UNCHANGED stdinRead
  /\ UNCHANGED <<variant, env, input, newIdentifier, updatedAccount,
                 updatedProfile, calls>>

\* process.stdin.on("data", (c) => (data += c)): a chunk arrives; it completes
\* the text or leaves it partial.
StdinData ==
  /\ stdinRead.state # "idle"
  /\ ~stdinRead.ended
  /\ stdinRead.data # input.stdin
  /\ stdinRead.chunks < MaxChunks
  /\ \E d \in {input.stdin} \cup (IF stdinRead.chunks + 1 < MaxChunks THEN {Partial} ELSE {}) :
       stdinRead' = [stdinRead EXCEPT !.data = d, !.chunks = @ + 1]
  /\ UNCHANGED <<variant, env, input, pc, body, newIdentifier, updatedAccount,
                 updatedProfile, calls, emitted, thrown>>

\* resolve(value): only the first call settles the promise.
resolve(sr, value) ==
  IF sr.state = "waiting" THEN [sr EXCEPT !.state = "resolved", !.value = value] ELSE sr

\* process.stdin.on("end", () => resolve(data))
StdinEnd ==
  /\ stdinRead.state # "idle"
  /\ ~stdinRead.ended
  /\ stdinRead.data = input.stdin
  /\ stdinRead' = [resolve(stdinRead, stdinRead.data) EXCEPT !.ended = TRUE]
  /\ UNCHANGED <<variant, env, input, pc, body, newIdentifier, updatedAccount,
                 updatedProfile, calls, emitted, thrown>>

\* setTimeout(() => resolve(data || ""), 250), or resolve("") in the readers
\* that drop what has arrived.
TimerFires ==
  /\ stdinRead.state # "idle"
  /\ ~stdinRead.timerFired
  /\ stdinRead' =
       [resolve(stdinRead, IF variant \in TimerKeepsData THEN stdinRead.data ELSE "")
          EXCEPT !.timerFired = TRUE]
  /\ UNCHANGED <<variant, env, input, pc, body, newIdentifier, updatedAccount,
                 updatedProfile, calls, emitted, thrown>>

\* The await on stdin is over: the rest of readPayload runs on what was read.
FinishRead ==
  /\ pc = "stdin_wait"
  /\ stdinRead.state = "resolved"
  /\ Resolved([input EXCEPT !.stdin = stdinRead.value])
  /\ UNCHANGED <<variant, env, input, stdinRead, newIdentifier, updatedAccount,
                 updatedProfile, calls>>

\* The mutant goes on after reporting the missing fields.
afterValidationError_fallThrough(v) == "identifier"

\* return finish({ ok: false, message: "profileId and accountId are required ..." })
afterValidationError(v) == "done"

\* Destructuring and if (!profileId || !accountId)
Validate ==
  /\ pc = "validate"
  /\ LET d == destructure(variant, body, input.req) IN
     IF ~d.ok
     THEN /\ emitted' = emitted \o catchResult(variant)
          /\ thrown' = "destructure"
          /\ pc' = "done"
     ELSE IF ~Truthy(d.f.profileId) \/ ~Truthy(d.f.accountId)
          THEN /\ emitted' = Append(emitted, validationError(variant))
               /\ pc' = afterValidationError(variant)
               /\ UNCHANGED thrown
          ELSE /\ pc' = "identifier"
               /\ UNCHANGED <<emitted, thrown>>
  /\ UNCHANGED <<variant, env, input, stdinRead, body, newIdentifier, updatedAccount,
                 updatedProfile, calls>>

\* Build the new login identifier.
BuildIdentifier ==
  /\ pc = "identifier"
  /\ LET b == buildIdentifier(variant, Fields) IN
     IF b.invalid
     THEN /\ emitted' = Append(emitted, invalidPhoneError)
          /\ pc' = "done"
          /\ UNCHANGED newIdentifier
     ELSE /\ newIdentifier' = b.id
          /\ pc' = "auth"
          /\ UNCHANGED emitted
  /\ UNCHANGED <<variant, env, input, stdinRead, body, updatedAccount, updatedProfile, calls,
                 thrown>>

Call(api, payload) ==
  [api |-> api, payload |-> payload, status |-> "pending", returned |-> "none"]

\* The last call gets its status.
Settle(cs, status) == [cs EXCEPT ![Len(cs)].status = status]

\* The last call succeeded and its response carried a record (or no JSON body).
Returns(cs, rec) == [Settle(cs, "ok") EXCEPT ![Len(cs)].returned = rec]

\* The mutant does not await the auth update.
afterAuthIssue_notAwaited(v) == "profile"

\* updatedAccount = await users.update(...) / const resp = await fetch(userUrl, ...)
afterAuthIssue(v) == "auth_wait"

\* if (Object.keys(updateArgs).length > 0) users.update(...) / fetch(userUrl, PUT)
IssueAuthUpdate ==
  /\ pc = "auth"
  /\ LET args == updateArgs(newIdentifier, Fields) IN
     IF Keys(args) > 0
     THEN /\ calls' = Append(calls, Call("users.update", args))
          /\ pc' = afterAuthIssue(variant)
     ELSE /\ pc' = "profile"
          /\ UNCHANGED calls
  /\ UNCHANGED <<variant, env, input, stdinRead, body, newIdentifier, updatedAccount,
                 updatedProfile, emitted, thrown>>

\* What a call can come back with: the SDK resolves or rejects; fetch resolves
\* with an ok response (whose body may not be JSON), a non-ok response, or rejects.
Outcomes(v) ==
  IF v \in RestVariants THEN {"ok", "ok_no_json", "failed", "threw"} ELSE {"ok", "failed"}

\* The mutant reports the failure and goes on to the profile update.
afterAuthError_fallThrough(v) == "profile"

\* return finish({ ok: false, message: "Failed to update Auth user", ... })
afterAuthError(v) == "done"

\* The auth update call returns.
AuthUpdateReturns ==
  /\ pc = "auth_wait"
  /\ \E o \in Outcomes(variant) :
       CASE o = "ok" ->
              /\ updatedAccount' = "record"
              /\ calls' = Returns(calls, "record")
              /\ pc' = "profile"
              /\ UNCHANGED <<emitted, thrown>>
         [] o = "ok_no_json" ->
              /\ updatedAccount' = "null"
              /\ calls' = Returns(calls, "none")
              /\ pc' = "profile"
              /\ UNCHANGED <<emitted, thrown>>
         [] o = "failed" ->
              /\ emitted' = Append(emitted, authError(variant))
              /\ calls' = Settle(calls, "failed")
              /\ thrown' = IF variant \in RestVariants THEN thrown ELSE "auth"
              /\ pc' = afterAuthError(variant)
              /\ UNCHANGED updatedAccount
         [] OTHER ->
              /\ emitted' = emitted \o catchResult(variant)
              /\ calls' = Settle(calls, "failed")
              /\ thrown' = "auth"
              /\ pc' = "done"
              /\ UNCHANGED updatedAccount
  /\ UNCHANGED <<variant, env, input, stdinRead, body, newIdentifier, updatedProfile>>

\* if (Object.keys(profileData).length > 0) databases.updateDocument(...) / fetch(PATCH)
IssueProfileUpdate ==
  /\ pc = "profile"
  /\ LET p == profileData(variant, Fields) IN
     IF p.threw
     THEN /\ emitted' = emitted \o catchResult(variant)
          /\ thrown' = "profileData"
          /\ pc' = "done"
          /\ UNCHANGED calls
     ELSE IF Keys(p.data) > 0
          THEN /\ calls' = Append(calls, Call("updateDocument", p.data))
               /\ pc' = "profile_wait"
               /\ UNCHANGED <<emitted, thrown>>
          ELSE /\ pc' = "finish"
               /\ UNCHANGED <<calls, emitted, thrown>>
  /\ UNCHANGED <<variant, env, input, stdinRead, body, newIdentifier, updatedAccount,
                 updatedProfile>>

\* The mutant answers a failed profile update by updating the auth record again.
afterProfileError_rollback(v) == "auth"

\* return finish({ ok: false, message: "Failed to update profile document", ... })
afterProfileError(v) == "done"

\* The profile update call returns.
ProfileUpdateReturns ==
  /\ pc = "profile_wait"
  /\ \E o \in Outcomes(variant) :
       CASE o = "ok" ->
              /\ updatedProfile' = "record"
              /\ calls' = Returns(calls, "record")
              /\ pc' = "finish"
              /\ UNCHANGED <<emitted, thrown>>
         [] o = "ok_no_json" ->
              /\ updatedProfile' = "null"
              /\ calls' = Returns(calls, "none")
              /\ pc' = "finish"
              /\ UNCHANGED <<emitted, thrown>>
         [] o = "failed" ->
              /\ emitted' = Append(emitted, profileError(variant, updatedAccount))
              /\ calls' = Settle(calls, "failed")
              /\ thrown' = IF variant \in RestVariants THEN thrown ELSE "profile"
              /\ pc' = afterProfileError(variant)
              /\ UNCHANGED updatedProfile
         [] OTHER ->
              /\ emitted' = emitted \o catchResult(variant)
              /\ calls' = Settle(calls, "failed")
              /\ thrown' = "profile"
              /\ pc' = "done"
              /\ UNCHANGED updatedProfile
  /\ UNCHANGED <<variant, env, input, stdinRead, body, newIdentifier, updatedAccount>>

\* finish({ ok: true, account: updatedAccount ?? null, profile: updatedProfile ?? null })
Finish ==
  /\ pc = "finish"
  /\ emitted' = Append(emitted, success(updatedAccount, updatedProfile))
  /\ pc' = "done"
  /\ UNCHANGED <<variant, env, input, stdinRead, body, newIdentifier, updatedAccount,
                 updatedProfile, calls, thrown>>

Next ==
  \/ CheckConfig
  \/ StartRead
  \/ StdinData
  \/ StdinEnd
  \/ TimerFires
  \/ FinishRead
  \/ Validate
  \/ BuildIdentifier
  \/ IssueAuthUpdate
  \/ AuthUpdateReturns
  \/ IssueProfileUpdate
  \/ ProfileUpdateReturns
  \/ Finish

Spec == Init /\ [][Next]_vars

\* The steps of the invocation itself: a continuation that can run does run.
Step ==
  \/ CheckConfig
  \/ StartRead
  \/ FinishRead
  \/ Validate
  \/ BuildIdentifier
  \/ IssueAuthUpdate
  \/ IssueProfileUpdate
  \/ Finish

\* The event loop runs every continuation that is ready and fires the timer
\* that was set; stdin may never deliver data or end, and no timeout makes a
\* network call return.
LiveSpec == Spec /\ WF_vars(Step) /\ WF_vars(TimerFires)

(***************************************************************************)
(* Properties                                                              *)
(***************************************************************************)
Done == pc = "done"

AuthCalls == {i \in DOMAIN calls : calls[i].api = "users.update"}

ProfileCalls == {i \in DOMAIN calls : calls[i].api = "updateDocument"}

AuthFailed == \E i \in AuthCalls : calls[i].status = "failed"

\* The digits of a string, from left to right, as the specification defines them.
RECURSIVE DigitsOnly(_)
DigitsOnly(s) ==
  IF s = <<>> THEN <<>>
  ELSE IF Head(s) \in {"9", "8"} THEN <<Head(s)>> \o DigitsOnly(Tail(s))
  ELSE DigitsOnly(Tail(s))

\* The request the caller built lacks a usable profileId or accountId.
MissingRequired == ~Truthy(input.req.profileId) \/ ~Truthy(input.req.accountId)

\* One of the five required settings is absent from the environment.
SettingAbsent ==
  \E n \in {"APPWRITE_ENDPOINT", "APPWRITE_API_KEY", "APPWRITE_DATABASE_ID",
            "APPWRITE_USER_COLLECTION_ID"} : n \notin env

ProjectAbsent == "APPWRITE_PROJECT_ID" \notin env /\ "APPWRITE_PROJECT" \notin env

\* C1: with the configuration complete, a request that lacks profileId or
\* accountId ends with exactly the required-fields validation result, and no
\* network call is issued.
C1_MissingIdsRejected ==
  (Done /\ ~SettingAbsent /\ ~ProjectAbsent /\ MissingRequired)
    => /\ Len(emitted) = 1
       /\ ~emitted[1].ok
       /\ emitted[1].message = validationMessage(variant)
       /\ calls = <<>>

\* C2: once an auth update call has failed, no profile update call is ever
\* issued, the invocation is over and what it emitted is an ok:false result.
C2_AuthFailureShortCircuits ==
  AuthFailed => /\ ProfileCalls = {}
                /\ Done
                /\ emitted # <<>>
                /\ \A k \in DOMAIN emitted : ~emitted[k].ok

\* C2 witness: the auth update failed for a request that carries profile fields.
C2_Witness == AuthFailed /\ Done /\ Keys(profileData(variant, Fields).data) > 0

ProfileFailedAfterAuth ==
  /\ \E i \in AuthCalls : calls[i].status = "ok"
  /\ \E j \in ProfileCalls : calls[j].status = "failed"

\* C3: when the profile update fails after a successful auth update, the
\* ok:false result carries the account record the auth update returned.
C3_PartialFailureCarriesAccount ==
  (Done /\ ProfileFailedAfterAuth /\ updatedAccount = "record")
    => /\ Len(emitted) = 1
       /\ ~emitted[1].ok
       /\ "account" \in emitted[1].keys
       /\ emitted[1].account = "record"

\* C4: no auth update and no profile update is issued for a request that asks
\* for verification and supplies a wrong currentPassword.
C4_WrongPasswordNoMutation ==
  (Fields.verifyCurrentPassword /\ Fields.currentPassword # AccountPassword)
    => calls = <<>>

WellFormed(r) ==
  IF r.ok
  THEN {"account", "profile"} \subseteq r.keys /\ r.account # "absent" /\ r.profile # "absent"
  ELSE "message" \in r.keys /\ r.message # ""

\* C5: an invocation emits nothing before it ends and exactly one result when
\* it ends, and the result is ok:true with account and profile or ok:false
\* with a message.
C5_ExactlyOneResult ==
  /\ Len(emitted) = (IF Done THEN 1 ELSE 0)
  /\ \A k \in DOMAIN emitted : WellFormed(emitted[k])

\* C5 witness: the invocation ended through the top-level catch after the auth
\* update had been issued.
C5_Witness == Done /\ thrown # "none" /\ calls # <<>> /\ Len(emitted) = 1

\* C6: whenever a step has thrown, the invocation is over and has emitted one
\* ok:false result.
C6_NoErrorEscapes ==
  thrown # "none" => /\ Done
                     /\ Len(emitted) = 1
                     /\ ~emitted[1].ok

\* C6 witness: the payload was malformed and its resolution threw.
C6_Witness == thrown = "payload" /\ input.rawEnv = "garbage" /\ Done

NoMutableField(f) ==
  /\ f.newPhone = Undefined
  /\ f.newEmail = Undefined
  /\ f.name = Undefined
  /\ f.newPassword = Undefined

\* C7: a request with profileId and accountId and no mutable field issues no
\* network call and ends with ok:true, account null and profile null.
C7_NoMutableFieldIsNoOp ==
  (Truthy(Fields.profileId) /\ Truthy(Fields.accountId) /\ NoMutableField(Fields))
    => /\ calls = <<>>
       /\ Done => emitted = <<success("null", "null")>>

\* C7 witness: such a request went through the whole invocation.
C7_Witness ==
  /\ Truthy(Fields.profileId) /\ Truthy(Fields.accountId) /\ NoMutableField(Fields)
  /\ Done
  /\ emitted # <<>>

\* C8: with a required setting absent, the only thing the invocation does is
\* emit the configuration error: no payload is read, no call is issued.
C8_ConfigErrorIsSoleOutput ==
  ((SettingAbsent \/ ProjectAbsent) /\ pc # "start")
    => /\ Done
       /\ emitted = <<configError(variant)>>
       /\ body = JsUndefined
       /\ calls = <<>>

\* C8 witness: the collection id was absent and the request was a valid one.
C8_Witness ==
  /\ "APPWRITE_USER_COLLECTION_ID" \notin env
  /\ Done
  /\ ~MissingRequired
  /\ input.rawEnv = "{req}"

HasDigit(v) == Truthy(v) /\ DigitsOnly(String(v)) # <<>>

PastAuthIssue == pc \in {"auth_wait", "profile", "profile_wait", "finish"}

\* C9 as first stated: every auth update issued for a request that supplies
\* newPhone carries the phone's digits followed by @phone.local.
C9_EveryPhone ==
  \A i \in AuthCalls :
    Truthy(Fields.newPhone)
      => calls[i].payload.email = Str(DigitsOnly(String(Fields.newPhone)) \o PhoneLocal)

\* C9: for a newPhone with at least one digit the auth update is issued and
\* its login identifier is the phone's digits followed by @phone.local.
C9_PhoneWithDigit ==
  HasDigit(Fields.newPhone)
    => /\ PastAuthIssue => AuthCalls # {}
       /\ \A i \in AuthCalls :
            calls[i].payload.email
              = Str(DigitsOnly(String(Fields.newPhone)) \o PhoneLocal)

\* C9 witness: an auth update was issued for a phone with a digit and a
\* character that is not one.
C9_Witness ==
  /\ AuthCalls # {}
  /\ HasDigit(Fields.newPhone)
  /\ DigitsOnly(String(Fields.newPhone)) # String(Fields.newPhone)

\* C10: once the identifier is built, a phone without digits and a non-blank
\* email give the trimmed email, and the identifier is null only when the
\* phone has no digit and the email is blank.
C10_EmailFallback ==
  (pc = "auth" /\ DigitsOnly(String(Fields.newPhone)) = <<>>)
    => IF trim(String(Fields.newEmail)) # <<>>
       THEN newIdentifier = Str(trim(String(Fields.newEmail)))
       ELSE newIdentifier = Null

NonBlank(v) == Truthy(v) /\ trim(String(v)) # <<>>

\* C11: when newPhone holds a digit and newEmail is supplied too, every variant
\* issues the auth update with the phone's digits followed by @phone.local as
\* the login identifier, and never with the email.
C11_PhoneBeforeEmail ==
  (HasDigit(Fields.newPhone) /\ NonBlank(Fields.newEmail))
    => /\ PastAuthIssue => AuthCalls # {}
       /\ \A i \in AuthCalls :
            /\ calls[i].payload.email.s = DigitsOnly(String(Fields.newPhone)) \o PhoneLocal
            /\ calls[i].payload.email # Str(trim(String(Fields.newEmail)))
       /\ pc \notin {"start", "read", "validate", "identifier"}
            => newIdentifier.s = DigitsOnly(String(Fields.newPhone)) \o PhoneLocal

\* C11 witness: each variant issued the auth update for a request with a
\* phone that holds a digit and a non-blank email.
C11_Witness ==
  /\ AuthCalls # {}
  /\ HasDigit(Fields.newPhone)
  /\ NonBlank(Fields.newEmail)
  /\ variant = "idx_run"

\* The request supplies profileId, accountId and, of the mutable fields, f only.
OnlyField(f) ==
  /\ Truthy(Fields.profileId) /\ Truthy(Fields.accountId)
  /\ Fields[f].t = "string" /\ NonBlank(Fields[f])
  /\ \A g \in {"newPhone", "newEmail", "name", "newPassword"} \ {f} :
       Fields[g] = Undefined

\* The keys an update payload carries.
PayloadKeys(p) == {k \in DOMAIN p : p[k].t # "undefined"}

PastProfileIssue == pc \in {"profile_wait", "finish"}

\* C12: for a request with both ids and only a name (a non-blank string), the
\* auth update is issued with exactly the name field, and the profile update,
\* issued once the auth update has succeeded, carries exactly the name field;
\* the value sent is the trimmed name.
C12_NameOnlyPayloads ==
  OnlyField("name")
    => /\ PastAuthIssue => AuthCalls # {}
       /\ PastProfileIssue => ProfileCalls # {}
       /\ \A i \in DOMAIN calls :
            /\ PayloadKeys(calls[i].payload) = {"name"}
            /\ calls[i].payload.name = Str(trim(String(Fields.name)))

\* C12 witness: both updates were issued for a name with a trailing space.
C12_Witness ==
  /\ OnlyField("name")
  /\ AuthCalls # {} /\ ProfileCalls # {}
  /\ trim(String(Fields.name)) # String(Fields.name)

\* What a result carries for a call that returned rec.
Carried(rec) == IF rec = "record" THEN "record" ELSE "null"

ConfigComplete == ~SettingAbsent /\ ~ProjectAbsent

\* No structured payload and no request body were handed to the invocation.
NoDirect == input.payload = JsUndefined /\ input.reqBody = JsUndefined

PastRead == pc \notin {"start", "read", "stdin_wait"}

\* The raw string the resolver recovered is text: the environment variable
\* holds it and stdin is empty, or the variable is unset and the stdin read
\* resolved with it.
Recovered(text) ==
  \/ input.rawEnv = text /\ input.stdin = ""
  \/ input.rawEnv = "" /\ stdinRead.state = "resolved" /\ stdinRead.value = text

\* Raw payloads that are not JSON and hold no JSON in a form field.
Malformed == {"garbage", "data=%7Bbad", Partial}

\* C14: once a malformed raw payload has been recovered, from the environment
\* variable or from stdin, nothing has thrown in any variant, the resolved
\* payload is the empty mapping, and the invocation ends with the
\* required-fields validation result.
C14_ResolverNeverThrows ==
  (ConfigComplete /\ NoDirect /\ PastRead /\ \E t \in Malformed : Recovered(t))
    => /\ thrown = "none"
       /\ body = JsObject("empty")
       /\ Done => emitted = <<validationError(variant)>>

\* C15: when the environment variable is set and cannot be parsed, the
\* resolver has gone on to read stdin, and the JSON payload it read there is
\* the resolved payload.
C15_FallThroughToStdin ==
  (ConfigComplete /\ NoDirect /\ PastRead /\ variant # "idx_exports"
     /\ input.rawEnv = "garbage" /\ input.stdin = "{req}")
    => /\ stdinRead.state = "resolved"
       /\ stdinRead.value = "{req}" => body = JsObject("req")

\* C16: when the recovered raw string is the JSON text of a string that holds
\* the JSON text of the request, the resolved payload is the request object,
\* and a request with both ids is not answered with the validation result.
C16_DoubleEncodedPayload ==
  (ConfigComplete /\ NoDirect /\ PastRead /\ variant # "idx_exports"
     /\ Recovered("\"{req}\""))
    => /\ body = JsObject("req")
       /\ (Done /\ ~MissingRequired) => emitted # <<validationError(variant)>>

\* C17: a non-empty structured payload is the resolved payload and stdin is
\* not read; an empty structured payload is skipped for the request body,
\* and an empty request body is skipped for the environment variable.
C17_FirstNonEmptySource ==
  (ConfigComplete /\ PastRead)
    => /\ input.payload = JsObject("req")
            => body = JsObject("req") /\ stdinRead.state = "idle"
       /\ (input.payload = JsObject("empty") /\ input.reqBody = JsObject("req"))
            => body = JsObject("req")
       /\ (variant = "idx_userFunction" /\ input.payload \in {JsUndefined, JsObject("empty")}
             /\ input.reqBody = JsObject("empty") /\ input.rawEnv = "{req}")
            => body = JsObject("req")

\* C18: when the recovered raw string is a urlencoded form whose body field
\* (checked before payload and data) holds the percent-encoded request, the
\* resolved payload is the request object; when the field holds no JSON the
\* whole raw string is parsed as JSON instead, which here yields the empty
\* mapping.
C18_UrlencodedForm ==
  (ConfigComplete /\ NoDirect /\ PastRead /\ variant # "idx_exports")
    => /\ (Recovered("body=%7Breq%7D") \/ Recovered("payload=%7B%7D&body=%7Breq%7D"))
            => body = JsObject("req")
       /\ Recovered("data=%7Bbad") => body = JsObject("empty") /\ thrown = "none"

\* The read of stdin completes once: a settled promise keeps its value
\* whatever event arrives later.
ReadSettlesOnce ==
  [][stdinRead.state = "resolved"
       => stdinRead'.state = "resolved" /\ stdinRead'.value = stdinRead.value]_vars

\* The read is over by the time the timer has fired.
ReadOverAtTimeout == stdinRead.timerFired => stdinRead.state = "resolved"

\* The resolved payload is not changed by anything that happens after the read.
PayloadKept == [][PastRead => body' = body]_vars

\* C19: the stdin read completes once, is over when the timer has fired, the
\* resolved payload is not changed by later events, and every invocation
\* that comes to read its payload eventually proceeds to validation.
C19_BoundedRead ==
  /\ ReadSettlesOnce
  /\ []ReadOverAtTimeout
  /\ PayloadKept
  /\ (pc = "read") ~> (pc = "validate")

\* The part of C19 about the read alone: the wait on stdin always ends.
ReadWaitEnds == (pc = "stdin_wait") ~> PastRead

InFlight == {i \in DOMAIN calls : calls[i].status = "pending"}

\* C20: at most one call is in flight, the auth update and the profile update
\* are each issued at most once, and a profile update is issued only after
\* the auth update, if there was one, has come back successfully.
C20_SequentialCalls ==
  /\ Cardinality(InFlight) <= 1
  /\ Cardinality(AuthCalls) <= 1
  /\ Cardinality(ProfileCalls) <= 1
  /\ \A j \in ProfileCalls : \A i \in AuthCalls : i < j /\ calls[i].status = "ok"

\* C20 witness: the profile update is in flight after the auth update came back.
C20_Witness ==
  /\ ProfileCalls # {}
  /\ InFlight = ProfileCalls
  /\ AuthCalls # {}
  /\ variant = "p0_run"

\* The profile update did not come back at all: fetch itself rejected, which
\* the REST variants leave to the top-level catch.
FetchRejected == variant \in RestVariants /\ thrown = "profile"

C22_NullIffNotIssued ==
  \A k \in DOMAIN emitted :
    emitted[k].ok
      => /\ emitted[k].account = "null" <=> AuthCalls = {}
         /\ emitted[k].profile = "null" <=> ProfileCalls = {}
         /\ \A i \in DOMAIN calls : calls[i].status = "ok"

\* A login identifier is derived: the phone holds a digit, or there is no
\* phone to speak of and the email is not blank.
IdentifierDerived ==
  \/ HasDigit(Fields.newPhone)
  \/ ~NonBlank(Fields.newPhone) /\ NonBlank(Fields.newEmail)

\* C23: an auth update carries the login identifier exactly when one was
\* derived, the password exactly when newPassword was supplied and the name
\* exactly when name was supplied; it is issued exactly when one of the three
\* is there; and a request with only newPassword issues the auth update with
\* the password alone, no profile update, and on success ends with ok:true
\* and profile null.
C23_SparseAuthPayload ==
  /\ \A i \in AuthCalls :
       /\ "email" \in PayloadKeys(calls[i].payload) <=> IdentifierDerived
       /\ "password" \in PayloadKeys(calls[i].payload) <=> NonBlank(Fields.newPassword)
       /\ "name" \in PayloadKeys(calls[i].payload) <=> NonBlank(Fields.name)
       /\ "phone" \notin PayloadKeys(calls[i].payload)
  /\ PastAuthIssue
       => (AuthCalls # {}
             <=> IdentifierDerived \/ NonBlank(Fields.newPassword) \/ NonBlank(Fields.name))
  /\ OnlyField("newPassword")
       => /\ PastAuthIssue => AuthCalls # {}
          /\ ProfileCalls = {}
          /\ \A i \in AuthCalls :
               /\ PayloadKeys(calls[i].payload) = {"password"}
               /\ calls[i].payload.password = Str(trim(String(Fields.newPassword)))
          /\ (Done /\ \A i \in AuthCalls : calls[i].status = "ok")
               => /\ Len(emitted) = 1
                  /\ emitted[1].ok
                  /\ emitted[1].profile = "null"

\* C23 witness: a request with only newPassword ended with ok:true after its
\* auth update.
C23_Witness ==
  /\ OnlyField("newPassword")
  /\ Done
  /\ AuthCalls # {}
  /\ emitted # <<>>
  /\ emitted[1].ok

\* s ends with @phone.local.
EndsWithPhoneLocal(s) ==
  /\ Len(s) >= Len(PhoneLocal)
  /\ SubSeq(s, Len(s) - Len(PhoneLocal) + 1, Len(s)) = PhoneLocal

\* C24: when newPhone holds a digit and newEmail is supplied, the profile
\* update carries the phone's digits and the trimmed email while the auth
\* update carries the one login identifier built from the phone; and no
\* profile update of any request carries a value ending in @phone.local.
C24_ProfileIndependentOfIdentifier ==
  /\ (HasDigit(Fields.newPhone) /\ NonBlank(Fields.newEmail))
       => /\ \A j \in ProfileCalls :
               /\ calls[j].payload.phone = Str(DigitsOnly(String(Fields.newPhone)))
               /\ calls[j].payload.email = Str(trim(String(Fields.newEmail)))
          /\ \A i \in AuthCalls :
               /\ calls[i].payload.email
                    = Str(DigitsOnly(String(Fields.newPhone)) \o PhoneLocal)
               /\ calls[i].payload.phone = Undefined
          /\ PastProfileIssue => ProfileCalls # {}
  /\ \A j \in ProfileCalls : \A k \in DOMAIN calls[j].payload :
       ~EndsWithPhoneLocal(calls[j].payload[k].s)

\* C24 witness: both updates were issued for a request with a phone holding
\* a digit and a non-blank email.
C24_Witness ==
  /\ HasDigit(Fields.newPhone)
  /\ NonBlank(Fields.newEmail)
  /\ AuthCalls # {}
  /\ ProfileCalls # {}
  /\ variant = "p3_main"

\* C25: building the identifier never ends the invocation: from the builder
\* the orchestration always goes on to the auth update step, and nothing is
\* emitted there.
C25_BuilderTotal ==
  [][pc = "identifier" => /\ pc' \in {"identifier", "auth"}
                          /\ emitted' = emitted]_vars

\* The readers whose timer resolves with the empty string, and the others.
DropReaders == {"p0_run", "p2_userFunction", "p3_main", "idx_main"}

KeepReaders == {"p1_main", "idx_run", "idx_userFunction"}

\* The timer settled the read: it has fired and the stream had not ended.
TimerWon ==
  stdinRead.state = "resolved" /\ stdinRead.timerFired /\ ~stdinRead.ended

\* The timer fires in this step while the read is pending.
TimerSettles ==
  stdinRead.state = "waiting" /\ ~stdinRead.timerFired /\ stdinRead'.timerFired

\* C26, the readers that drop: when the timer settled the read, it resolved
\* with the empty string whatever had arrived, the payload is the empty
\* mapping, no call is issued and the invocation ends with the
\* required-fields validation result.
C26_Dropped ==
  (variant \in DropReaders /\ TimerWon)
    => /\ stdinRead.value = ""
       /\ PastRead => body = JsObject("empty")
       /\ calls = <<>>
       /\ Done => emitted = <<validationError(variant)>>

\* C26: the timer that fires before 'end' resolves with the empty string in
\* the readers that drop (with the consequences above) and with the chunks
\* received so far in the others, where a text that has wholly arrived is
\* the payload.
C26_StdinTimerRace ==
  /\ []C26_Dropped
  /\ [][TimerSettles
          => stdinRead'.value = (IF variant \in KeepReaders THEN stdinRead.data ELSE "")]_vars
  /\ []((variant \in {"p1_main", "idx_userFunction"} /\ TimerWon /\ PastRead
           /\ stdinRead.value = "{req}")
          => body = JsObject("req"))

\* C26 witness: the whole request text had arrived when the timer fired, the
\* stream had not ended, and the invocation ended with the validation result.
C26_Witness ==
  /\ variant \in DropReaders
  /\ TimerWon
  /\ stdinRead.data = "{req}"
  /\ ~MissingRequired
  /\ Done
  /\ emitted = <<validationError(variant)>>

\* C27: a profile update that carries a phone carries a non-empty string of
\* digits, and the auth update of the invocation carried that phone followed
\* by @phone.local as the login identifier.
C27_ProfilePhoneIsDigits ==
  \A j \in ProfileCalls :
    calls[j].payload.phone # Undefined
      => /\ calls[j].payload.phone.s # <<>>
         /\ DigitsOnly(calls[j].payload.phone.s) = calls[j].payload.phone.s
         /\ \E i \in AuthCalls :
              calls[i].payload.email = Str(calls[j].payload.phone.s \o PhoneLocal)

====
